---- MODULE Spec2Model ----
(***************************************************************************)
(* Model of the document-conversion service: the run state store           *)
(* (run-store.ts), the background worker loop (worker.ts) and the          *)
(* per-run conversion pipeline (pipeline.ts).                              *)
(*                                                                         *)
(* One worker loop drains the queue of runs; a run is driven by            *)
(* processRun, which calls runPipeline and writes the terminal state.      *)
(* Reads and writes of the run state, and writes of output files, are      *)
(* file-system operations that may reject; every such await is modelled    *)
(* with both outcomes.                                                     *)
(***************************************************************************)
EXTENDS Integers, Sequences, FiniteSets, TLC

\* ------------------------------------------------------------------ bounds
MaxRuns  == 2      \* run directories that can exist
MaxFiles == 3      \* input files of the upload
MaxCandidates == 2 \* candidate URLs of the ingestion API (DATA_INGESTION_CONVERT_URLS)
MaxRequests == 3   \* calls of scheduleGeminiRequest
MaxTicks == 6      \* clock ticks that pass after module initialisation
MaxClock == 2      \* instants of the clock that stamps the record of a run

\* --------------------------------------------------------------- constants
SUPPORT_MESSAGE  == "Something went wrong please contact support or retry"
PUBLIC_RUN_ERROR == "Something went wrong please contact support or retry"

\* pipeline.ts: Number(process.env.GEMINI_MIN_DELAY_MS || 1200), and the
\* resolution of the clock of the model, in ms
GEMINI_MIN_DELAY_MS == 1200
TickMs == GEMINI_MIN_DELAY_MS \div 2

\* A run id is the position of the run directory in listRuns() order.
RunIds == 1..MaxRuns

\* Input files: base name (extension stripped) and extension.  Files of
\* different directories may share the whole name.
InputFiles ==
  { [base |-> "x",     ext |-> ".txt"],
    [base |-> "x (2)", ext |-> ".pdf"] }

\* Every listing walk(inputDir) can return: any sequence of at most MaxFiles files.
InputLists == UNION { [1..n -> InputFiles] : n \in 0..MaxFiles }

VARIABLES
  hasOpenAi,      \* !!process.env.OPENAI_API_KEY
  hasGemini,      \* !!(process.env.GEMINI_API_KEY || process.env.GOOGLE_API_KEY)
  relInput,       \* files under uploads/<uploadId>/input, in discovery order
  store,          \* runs/<runId>/state.json, per run id
  workerStarted,  \* worker.ts: workerStarted
  loop,           \* the worker loop: position, run in hand, state read at dequeue,
                  \* and the number of loops started
  pipe,           \* the pipeline invocation of the run in hand, with its output area
  stream,         \* POST /api/runs, serverless runtime: the NDJSON stream of the request
  extract,        \* one call of toMarkdown: its inputs, position, attempts and result
  gemini,         \* pipeline.ts: geminiQueue, geminiLastStartedAt, the clock, the requests
  drive,          \* serverless runtime: the two drivers of a run (background loop, request),
                  \* the pipelines started, and the last response of the download entrypoint
  rewrite,        \* the calls of rewriteToHtmlFragment of one run: the call in progress,
                  \* its requests to the providers, and the preference of the run
  scan,           \* one call of findNextQueuedRun followed read by read: the listing,
                  \* what each read returned, and the order in which the runs were created
  rec             \* state.json of one run with all the fields of RunState, the clock,
                  \* and the calls of processRun that drive the run

vars == <<hasOpenAi, hasGemini, relInput, store, workerStarted, loop, pipe, stream, extract, gemini,
          drive, rewrite, scan, rec>>

\* ------------------------------------------------------------ run records
NoRun ==
  [status |-> "absent", progress |-> 0, message |-> "", error |-> "", debugError |-> "",
   downloadPath |-> ""]

\* POST /api/runs: the state written for a new run.
QueuedState ==
  [status |-> "queued", progress |-> 0, message |-> "Queued", error |-> "", debugError |-> "",
   downloadPath |-> ""]

Max(a, b) == IF a >= b THEN a ELSE b
Min(a, b) == IF a <= b THEN a ELSE b

\* processRun: { ...state, status: "running", progress: Math.max(0, state.progress ?? 0), message: "Starting..." }
RunningState(state) ==
  [state EXCEPT !.status = "running", !.progress = Max(0, state.progress), !.message = "Starting..."]

\* processRun, progress callback: { ...cur, progress: clamp(u.progress), message: u.message }
ProgressState(cur, progress, message) ==
  [cur EXCEPT !.progress = Max(0, Min(100, progress)), !.message = message]

\* Variant: the completed state built by spreading the state read at dequeue
\* ({ ...state, status: "completed" }), which keeps its progress.
CompletedState_KeepProgress(state, zipPath) ==
  [status |-> "completed", progress |-> state.progress, message |-> "Complete", error |-> "",
   debugError |-> "", downloadPath |-> zipPath]

\* processRun, after runPipeline returned
CompletedState(state, zipPath) ==
  [status |-> "completed", progress |-> 100, message |-> "Complete", error |-> "",
   debugError |-> "", downloadPath |-> zipPath]

\* Variant: the catch spreads the state read at dequeue and forgets the status
\* ({ ...state, error }), which puts the run back in the queue.
FailedState_Requeue(state, e) ==
  [status |-> state.status, progress |-> Max(0, state.progress), message |-> "",
   error |-> PUBLIC_RUN_ERROR, debugError |-> e, downloadPath |-> ""]

\* Variant: the catch spreads runningState and forgets the status
\* ({ ...runningState, error }), which leaves the run running.
FailedState_StillRunning(state, e) ==
  [status |-> "running", progress |-> Max(0, state.progress), message |-> "",
   error |-> PUBLIC_RUN_ERROR, debugError |-> e, downloadPath |-> ""]

\* processRun, catch; e: the message of the error caught (debugError: errorToObject(e))
FailedState(state, e) ==
  [status |-> "failed", progress |-> Max(0, state.progress), message |-> "",
   error |-> PUBLIC_RUN_ERROR, debugError |-> e, downloadPath |-> ""]

\* ------------------------------------------------------------ the pipeline
MapGet(m, k, default) == IF k \in DOMAIN m THEN m[k] ELSE default
MapSet(m, k, v) == [x \in (DOMAIN m) \cup {k} |-> IF x = k THEN v ELSE m[x]]
EmptyMap == [x \in {} |-> 0]

\* (baseNameNoExt || "file").trim() || "file"; the names of the model carry no blanks at the ends
SafeBase(baseNameNoExt) == IF baseNameNoExt = "" THEN "file" ELSE baseNameNoExt

\* makeUniqueOutputHtmlName: the name returned and the updated map
MakeUniqueOutputHtmlName(baseNameNoExt, used) ==
  LET safeBase == SafeBase(baseNameNoExt)
      base     == safeBase \o ".html"
      count    == MapGet(used, base, 0)
  IN  IF count = 0
      THEN [name |-> base, used |-> MapSet(used, base, 1)]
      ELSE LET next == count + 1
           IN  [name |-> safeBase \o " (" \o ToString(next) \o ").html",
                used |-> MapSet(used, base, next)]

\* Variant: the whole range is split over the files (per = 100 / n), leaving
\* no tail allowance.
FileProgress_NoTail(i, n) == (2 * (5 * n + 100 * i) + n) \div (2 * n)

\* Math.round(5 + (80 / n) * i), in exact arithmetic (round half up)
FileProgress(i, n) == (2 * (5 * n + 80 * i) + n) \div (2 * n)

\* progress of the "Creating zip..." event
ZipProgress == 90

\* rewriteToHtmlFragment: provider selection
Configured(provider) == IF provider = "openai" THEN hasOpenAi ELSE hasGemini
Other(provider) == IF provider = "openai" THEN "gemini" ELSE "openai"
DefaultPrimary == IF hasOpenAi THEN "openai" ELSE "gemini"
Primary(preferred) ==
  IF preferred # "null" /\ Configured(preferred) THEN preferred ELSE DefaultPrimary

\* runPipeline: initial value of preferredRewriteProvider
InitialPreferred == IF hasOpenAi THEN "openai" ELSE IF hasGemini THEN "gemini" ELSE "null"

\* Variant: the callback without its test of the configured providers
OnPrimaryFailure_Always(preferred, provider) ==
  IF preferred # provider THEN preferred ELSE Other(provider)

\* runPipeline: the onPrimaryFailure callback; the new preferredRewriteProvider
OnPrimaryFailure(preferred, provider) ==
  IF ~hasOpenAi \/ ~hasGemini THEN preferred
  ELSE IF preferred # provider THEN preferred
  ELSE Other(provider)

\* Variant: rewriteToHtmlFragment without the test for zero providers; the
\* providers are called and fail for want of a key.
RewriteToHtmlFragment_NoShortcut(preferred, primaryOk, fallbackOk) ==
  LET primary  == Primary(preferred)
      fallback == Other(primary)
  IN  IF primaryOk /\ Configured(primary)
      THEN [html |-> primary, preferred |-> preferred, exhausted |-> FALSE]
      ELSE LET flipped == OnPrimaryFailure(preferred, primary)
           IN  IF fallbackOk /\ Configured(fallback)
               THEN [html |-> fallback, preferred |-> flipped, exhausted |-> FALSE]
               ELSE [html |-> "local", preferred |-> flipped, exhausted |-> TRUE]

\* rewriteToHtmlFragment.  primaryOk / fallbackOk: whether the provider called
\* as primary / as fallback ends with a usable fragment (after its retries).
\* A provider without key throws "... missing" and so never succeeds.
RewriteToHtmlFragment(preferred, primaryOk, fallbackOk) ==
  IF ~hasOpenAi /\ ~hasGemini
  THEN [html |-> "local", preferred |-> preferred, exhausted |-> FALSE]
  ELSE LET primary  == Primary(preferred)
           fallback == Other(primary)
       IN  IF primaryOk
           THEN [html |-> primary, preferred |-> preferred, exhausted |-> FALSE]
           ELSE LET flipped == OnPrimaryFailure(preferred, primary)
                IN  IF fallbackOk /\ Configured(fallback)
                    THEN [html |-> fallback, preferred |-> flipped, exhausted |-> FALSE]
                    ELSE [html |-> "local", preferred |-> flipped, exhausted |-> TRUE]

\* runPipeline, catch: msg === SUPPORT_MESSAGE || msg.includes(SUPPORT_MESSAGE)
IsCritical(msg) == msg = SUPPORT_MESSAGE

IdlePipe ==
  [run |-> 0, pc |-> "idle", idx |-> 0, outName |-> "", used |-> EmptyMap,
   manifest |-> <<>>, guides |-> EmptyMap, preferred |-> "null",
   manifestWritten |-> FALSE, zipCreated |-> FALSE, zipFiles |-> {},
   rewrite |-> "none", exhausted |-> FALSE, err |-> "none", thrown |-> "none",
   takenOver |-> "none", emitted |-> <<>>]

\* runPipeline entered for run r: empty output area, nothing processed
StartPipe(r) == [IdlePipe EXCEPT !.run = r, !.pc = "walk"]

\* runPipeline left by an exception: its locals are gone, what it wrote under
\* the output area stays, and so do the progress events it has emitted
Throw(p, msg) ==
  [IdlePipe EXCEPT !.run = p.run, !.pc = "threw", !.thrown = msg, !.err = p.err,
                   !.guides = p.guides, !.manifestWritten = p.manifestWritten,
                   !.zipCreated = p.zipCreated, !.zipFiles = p.zipFiles,
                   !.emitted = p.emitted]

\* runPipeline, catch block of one file.  placeholderOk: the write of the
\* error HTML succeeds.
CatchFile(p, msg, placeholderOk) ==
  IF IsCritical(msg)
  THEN [p EXCEPT !.err = "critical", !.thrown = msg, !.pc = "finally"]
  ELSE IF ~placeholderOk
  THEN [p EXCEPT !.err = "noncritical", !.thrown = "EIO", !.pc = "finally"]
  ELSE [p EXCEPT !.err = "noncritical",
                 !.guides = MapSet(@, p.outName, "placeholder"),
                 !.manifest = Append(@, [sourcePath |-> p.idx, outputFile |-> p.outName,
                                         status |-> "error"]),
                 !.pc = "finally"]

\* runPipeline, try block of one file: toMarkdown, rewriteToHtmlFragment,
\* fs.writeFile, manifest.push; and its catch block.  takenOver remembers the
\* provider that first answered as the fallback of a failed primary.
\* markdownOk: toMarkdown returns (it rejects when the input file cannot be read).
ConvertFile(p, markdownOk, primaryOk, fallbackOk, writeOk, placeholderOk) ==
  IF ~markdownOk THEN CatchFile(p, "EIO", placeholderOk)
  ELSE LET rw == RewriteToHtmlFragment(p.preferred, primaryOk, fallbackOk)
           q  == [p EXCEPT !.preferred = rw.preferred, !.rewrite = rw.html,
                           !.exhausted = rw.exhausted,
                           !.takenOver = IF @ = "none" /\ rw.html = Other(Primary(p.preferred))
                                         THEN rw.html ELSE @]
       IN  IF ~writeOk THEN CatchFile(q, "EIO", placeholderOk)
           ELSE [q EXCEPT !.guides = MapSet(@, p.outName, "fragment"),
                          !.manifest = Append(@, [sourcePath |-> p.idx,
                                                  outputFile |-> p.outName,
                                                  status |-> "ok"]),
                          !.pc = "finally"]

\* ------------------------------------------------- states outside of a call
\* no inline request is being served
IdleStream == [pc |-> "idle", run |-> 0, events |-> <<>>]

\* toMarkdown is not being called
IdleExtract ==
  [pc |-> "idle", ext |-> "", hasIngestion |-> FALSE, candidates |-> 0, cand |-> 0,
   attempt |-> 0, tried |-> <<>>, result |-> "none"]

\* module initialisation of the Gemini queue, at a time later than the minimum delay
IdleGemini ==
  [now |-> GEMINI_MIN_DELAY_MS, lastStartedAt |-> 0, dispatched |-> <<>>, req |-> <<>>]

\* a driver that has not been started
OffDriver == [pc |-> "off", next |-> 0, state |-> NoRun]

\* no download requested
NoResponse == [status |-> "none", response |-> "none"]

\* nothing is driven and nothing was asked for
IdleDrive == [loop |-> OffDriver, inline |-> OffDriver, started |-> <<>>, download |-> NoResponse]

\* rewriteToHtmlFragment has not been called
IdleRewrite ==
  [pc |-> "idle", files |-> 0, envModel |-> FALSE, preferred |-> "null", atCall |-> "null",
   primary |-> "none", provider |-> "none", apiType |-> "none", model |-> "none",
   attempt |-> 0, requests |-> <<>>, failed |-> {}, callbacks |-> 0, outcome |-> "none"]

\* findNextQueuedRun is not being called, and no run has been created
IdleScan ==
  [pc |-> "idle", listing |-> <<>>, seen |-> <<>>, result |-> 0, created |-> <<>>]

\* state.json does not exist
NoRecord == [status |-> "absent"]

\* a call of processRun that has not been made: its position, the state it
\* read at dequeue, the state its progress callback read, the update in hand
OffCall == [pc |-> "off", state |-> NoRecord, cur |-> NoRecord, u |-> "none"]

\* no run directory, and no call of processRun
IdleRec == [now |-> 0, state |-> NoRecord, loop |-> OffCall, inline |-> OffCall]

stages == <<extract, gemini, drive, rewrite, scan, rec>>
aux == <<stream, extract, gemini, drive, rewrite, scan, rec>>

\* ------------------------------------------------------------------- Init
Init ==
  /\ hasOpenAi \in BOOLEAN
  /\ hasGemini \in BOOLEAN
  /\ relInput \in InputLists
  /\ store = [r \in RunIds |-> NoRun]
  /\ workerStarted = FALSE
  /\ loop = [pc |-> "off", next |-> 0, state |-> NoRun, loops |-> 0]
  /\ pipe = IdlePipe
  /\ stream = IdleStream
  /\ extract = IdleExtract
  /\ gemini = IdleGemini
  /\ drive = IdleDrive
  /\ rewrite = IdleRewrite
  /\ scan = IdleScan
  /\ rec = IdleRec

env == <<hasOpenAi, hasGemini, relInput>>

\* ---------------------------------------------------------------- actions
\* Variant: ensureWorkerStarted without its flag test; every call starts a loop.
EnsureWorkerStarted_NoFlag ==
  /\ workerStarted' = TRUE
  /\ loop' = [loop EXCEPT !.pc = IF @ = "off" THEN "scan" ELSE @, !.loops = @ + 1]

\* worker.ts ensureWorkerStarted; loop.loops counts the calls of workerLoop()
EnsureWorkerStarted ==
  IF workerStarted
  THEN UNCHANGED <<workerStarted, loop>>
  ELSE /\ workerStarted' = TRUE
       /\ loop' = [loop EXCEPT !.pc = "scan", !.loops = @ + 1]

\* POST /api/runs: write the queued state of a fresh run, start the worker
CreateRun ==
  \E r \in RunIds :
    /\ store[r].status = "absent"
    /\ store' = [store EXCEPT ![r] = QueuedState]
    /\ EnsureWorkerStarted
    /\ UNCHANGED <<env, aux, pipe>>

\* worker.ts findNextQueuedRun; unreadable: the runs whose readRunState rejects
FindNextQueuedRun(unreadable) ==
  LET queued == { r \in RunIds : r \notin unreadable /\ store[r].status = "queued" }
  IN  IF queued = {} THEN 0
      ELSE CHOOSE r \in queued : \A q \in queued : r <= q

\* workerLoop: const next = await findNextQueuedRun()
LoopScan ==
  /\ loop.pc = "scan"
  /\ \E unreadable \in SUBSET RunIds :
       LET next == FindNextQueuedRun(unreadable)
       IN  loop' = IF next = 0 THEN [loop EXCEPT !.pc = "sleep800"]
                   ELSE [loop EXCEPT !.pc = "processRun", !.next = next]
  /\ UNCHANGED <<env, aux, store, workerStarted, pipe>>

\* workerLoop: await sleep(800); continue
Sleep800Done ==
  /\ loop.pc = "sleep800"
  /\ loop' = [loop EXCEPT !.pc = "scan"]
  /\ UNCHANGED <<env, aux, store, workerStarted, pipe>>

\* workerLoop: await sleep(200) after processRun; the loop has left the run
Sleep200Done ==
  /\ loop.pc = "sleep200"
  /\ loop' = [loop EXCEPT !.pc = "scan", !.next = 0, !.state = NoRun]
  /\ pipe' = IdlePipe
  /\ UNCHANGED <<env, aux, store, workerStarted>>

\* processRun, up to the call of runPipeline.  A rejected read or write is
\* not caught: it rejects processRun and with it the worker loop.
ProcessRunStart ==
  /\ loop.pc = "processRun"
  /\ \E readOk, writeOk \in BOOLEAN :
       LET state == store[loop.next]
       IN  IF ~readOk
           THEN /\ loop' = [loop EXCEPT !.pc = "dead"]
                /\ UNCHANGED <<store, pipe>>
           ELSE IF state.status # "queued"
           THEN /\ loop' = [loop EXCEPT !.pc = "sleep200"]
                /\ UNCHANGED <<store, pipe>>
           ELSE IF ~writeOk
           THEN /\ loop' = [loop EXCEPT !.pc = "dead", !.state = state]
                /\ UNCHANGED <<store, pipe>>
           ELSE /\ store' = [store EXCEPT ![loop.next] = RunningState(state)]
                /\ loop' = [loop EXCEPT !.pc = "runPipeline", !.state = state]
                /\ pipe' = StartPipe(loop.next)
  /\ UNCHANGED <<env, aux, workerStarted>>

InPipe(pc) == loop.pc = "runPipeline" /\ pipe.pc = pc

\* POST /api/runs, serverless runtime: the 'status' event sent for an update
StatusEvent(progress) ==
  [type |-> "status", error |-> "", progress |-> Max(0, Min(100, progress))]

\* processQueuedRun(runId, { onProgress }): every update of the pipeline is
\* handed to the onProgress of the request, which sends it
Forward(progress) ==
  IF stream.pc = "driving" THEN [stream EXCEPT !.events = Append(@, StatusEvent(progress))]
  ELSE stream

\* processRun: the progress callback given to runPipeline.  ok: its read and
\* its write of the run state succeed.  The pipeline continues as cont when
\* the callback returns, and the rejection propagates when it does not.
\* pipe.emitted lists the progress values of the events the pipeline emitted.
\* When the request drives the run, the update goes to its stream as well.
OnProgress(progress, message, cont) ==
  /\ stream' = Forward(progress)
  /\ \E ok \in BOOLEAN :
       IF ok
       THEN /\ store' = [store EXCEPT ![pipe.run] =
                           IF @.status # "running" THEN @
                           ELSE ProgressState(@, progress, message)]
            /\ pipe' = [cont EXCEPT !.emitted = Append(pipe.emitted, progress)]
       ELSE /\ UNCHANGED store
            /\ pipe' = Throw([pipe EXCEPT !.emitted = Append(@, progress)], "EIO")

\* Variant: runPipeline without the test for zero files
PipeWalk_NoCheck ==
  /\ InPipe("walk")
  /\ pipe' = [pipe EXCEPT !.pc = "p5", !.preferred = InitialPreferred]
  /\ UNCHANGED <<env, aux, store, workerStarted, loop>>

\* runPipeline: walk(inputDir); zero files is an error
PipeWalk ==
  /\ InPipe("walk")
  /\ pipe' = IF Len(relInput) = 0 THEN Throw(pipe, "No uploaded files found")
             ELSE [pipe EXCEPT !.pc = "p5", !.preferred = InitialPreferred]
  /\ UNCHANGED <<env, aux, store, workerStarted, loop>>

\* Variant: the initial progress event carries no head allowance
PipeProgress5_Zero ==
  /\ InPipe("p5")
  /\ OnProgress(0, "Reading files...", [pipe EXCEPT !.pc = "file"])
  /\ UNCHANGED <<env, stages, workerStarted, loop>>

\* runPipeline: the initial progress event
PipeProgress5 ==
  /\ InPipe("p5")
  /\ OnProgress(5, "Reading files...", [pipe EXCEPT !.pc = "file"])
  /\ UNCHANGED <<env, stages, workerStarted, loop>>

\* runPipeline, head of the loop body: idx++, output name, "Converting" event
PipeStartFile ==
  /\ InPipe("file")
  /\ pipe.idx < Len(relInput)
  /\ LET idx == pipe.idx + 1
         u   == MakeUniqueOutputHtmlName(relInput[idx].base, pipe.used)
     IN  OnProgress(FileProgress(idx - 1, Len(relInput)), "Converting",
                    [pipe EXCEPT !.pc = "convert", !.idx = idx, !.outName = u.name,
                                 !.used = u.used])
  /\ UNCHANGED <<env, stages, workerStarted, loop>>

\* runPipeline, try / catch of the loop body
PipeConvert ==
  /\ InPipe("convert")
  /\ \E markdownOk, primaryOk, fallbackOk, writeOk, placeholderOk \in BOOLEAN :
       pipe' = ConvertFile(pipe, markdownOk, primaryOk, fallbackOk, writeOk, placeholderOk)
  /\ UNCHANGED <<env, aux, store, workerStarted, loop>>

\* runPipeline, finally of the loop body: "Processed" event, then either the
\* pending exception leaves the pipeline or the loop goes on
PipeFinally ==
  /\ InPipe("finally")
  /\ OnProgress(FileProgress(pipe.idx, Len(relInput)), "Processed",
                IF pipe.thrown # "none" THEN Throw(pipe, pipe.thrown)
                ELSE [pipe EXCEPT !.pc = "file", !.outName = "", !.rewrite = "none",
                                  !.exhausted = FALSE, !.err = "none"])
  /\ UNCHANGED <<env, stages, workerStarted, loop>>

\* Variant: the archive is created right after the "Creating zip..." event,
\* the manifest is not written first
PipeProgress90_ZipFirst ==
  /\ InPipe("file")
  /\ pipe.idx = Len(relInput)
  /\ OnProgress(ZipProgress, "Creating zip...", [pipe EXCEPT !.pc = "zip"])
  /\ UNCHANGED <<env, stages, workerStarted, loop>>

\* runPipeline: "Creating zip..." event after the last file
PipeProgress90 ==
  /\ InPipe("file")
  /\ pipe.idx = Len(relInput)
  /\ OnProgress(ZipProgress, "Creating zip...", [pipe EXCEPT !.pc = "manifest"])
  /\ UNCHANGED <<env, stages, workerStarted, loop>>

\* Variant: a manifest that cannot be written is passed over
PipeWriteManifest_Swallowed ==
  /\ InPipe("manifest")
  /\ \E ok \in BOOLEAN :
       pipe' = IF ok THEN [pipe EXCEPT !.pc = "zip", !.manifestWritten = TRUE]
               ELSE [pipe EXCEPT !.pc = "zip"]
  /\ UNCHANGED <<env, aux, store, workerStarted, loop>>

\* runPipeline: fs.writeFile(manifestPath, ...)
PipeWriteManifest ==
  /\ InPipe("manifest")
  /\ \E ok \in BOOLEAN :
       pipe' = IF ok THEN [pipe EXCEPT !.pc = "zip", !.manifestWritten = TRUE]
               ELSE Throw(pipe, "EIO")
  /\ UNCHANGED <<env, aux, store, workerStarted, loop>>

\* runPipeline: zipDirectoryToFile(guidesDir, zipPath)
PipeZip ==
  /\ InPipe("zip")
  /\ \E ok \in BOOLEAN :
       pipe' = IF ok THEN [pipe EXCEPT !.pc = "p100", !.zipCreated = TRUE,
                                       !.zipFiles = DOMAIN pipe.guides]
               ELSE Throw(pipe, "EIO")
  /\ UNCHANGED <<env, aux, store, workerStarted, loop>>

\* runPipeline: the final progress event, then return { zipPath }
PipeProgress100 ==
  /\ InPipe("p100")
  /\ OnProgress(100, "Done", [pipe EXCEPT !.pc = "returned"])
  /\ UNCHANGED <<env, stages, workerStarted, loop>>

\* processRun: the write of the completed state; it is inside the try, so a
\* rejected write is handled by the catch
ProcessRunCompleted ==
  /\ InPipe("returned")
  /\ \E ok \in BOOLEAN :
       IF ok
       THEN /\ store' = [store EXCEPT ![loop.next] = CompletedState(loop.state, "guides.zip")]
            /\ loop' = [loop EXCEPT !.pc = "sleep200"]
       ELSE /\ UNCHANGED store
            /\ loop' = [loop EXCEPT !.pc = "catch"]
  /\ UNCHANGED <<env, aux, workerStarted, pipe>>

\* Variant: the failed state is built from the state stored at the time of
\* the failure, and keeps the last progress reported
ProcessRunCatch_KeepProgress ==
  /\ InPipe("threw") \/ loop.pc = "catch"
  /\ \E ok \in BOOLEAN :
       IF ok
       THEN /\ store' = [store EXCEPT ![loop.next] =
                           FailedState(store[loop.next],
                                       IF loop.pc = "catch" THEN "EIO" ELSE pipe.thrown)]
            /\ loop' = [loop EXCEPT !.pc = "sleep200"]
       ELSE /\ UNCHANGED store
            /\ loop' = [loop EXCEPT !.pc = "dead"]
  /\ UNCHANGED <<env, aux, workerStarted, pipe>>

\* processRun, catch: the write of the failed state; a rejected write is not
\* caught and rejects the worker loop
ProcessRunCatch ==
  /\ InPipe("threw") \/ loop.pc = "catch"
  /\ \E ok \in BOOLEAN :
       IF ok
       THEN /\ store' = [store EXCEPT ![loop.next] =
                           FailedState(loop.state,
                                       IF loop.pc = "catch" THEN "EIO" ELSE pipe.thrown)]
            /\ loop' = [loop EXCEPT !.pc = "sleep200"]
       ELSE /\ UNCHANGED store
            /\ loop' = [loop EXCEPT !.pc = "dead"]
  /\ UNCHANGED <<env, aux, workerStarted, pipe>>

LoopNext ==
  \/ LoopScan
  \/ Sleep800Done
  \/ Sleep200Done
  \/ ProcessRunStart
  \/ PipeWalk
  \/ PipeProgress5
  \/ PipeStartFile
  \/ PipeConvert
  \/ PipeFinally
  \/ PipeProgress90
  \/ PipeWriteManifest
  \/ PipeZip
  \/ PipeProgress100
  \/ ProcessRunCompleted
  \/ ProcessRunCatch

Next ==
  \/ CreateRun
  \/ LoopScan
  \/ Sleep800Done
  \/ Sleep200Done
  \/ ProcessRunStart
  \/ PipeWalk
  \/ PipeProgress5
  \/ PipeStartFile
  \/ PipeConvert
  \/ PipeFinally
  \/ PipeProgress90
  \/ PipeWriteManifest
  \/ PipeZip
  \/ PipeProgress100
  \/ ProcessRunCompleted
  \/ ProcessRunCatch

Spec == Init /\ [][Next]_vars

\* The event loop runs every continuation that is ready: the worker loop and
\* the pipeline it awaits take their next step whenever they have one.
FairSpec == Spec /\ WF_vars(LoopNext)

\* ------------------------------------------------ the inline (serverless) mode
\* The creation entrypoint drives the run itself and streams NDJSON events.
\* processQueuedRun drives the run as processRun does; the record of the driver
\* is kept in loop: "sleep200" is the return of the driver, "dead" its rejection.
\* The background loop that ensureWorkerStarted starts is not scheduled here.
ProcessQueuedRun(r) == [pc |-> "processRun", next |-> r, state |-> NoRun, loops |-> 1]

\* one event of the stream
Event(type, error) == [type |-> type, error |-> error]

\* POST /api/runs, serverless runtime: the queued state, ensureWorkerStarted,
\* the events 'runId' and 'status' (queued), and the call of processQueuedRun
InlinePost ==
  \E r \in RunIds :
    /\ stream.pc \in {"idle", "closed"}
    /\ store[r].status = "absent"
    /\ store' = [store EXCEPT ![r] = QueuedState]
    /\ workerStarted' = TRUE
    /\ loop' = ProcessQueuedRun(r)
    /\ pipe' = IdlePipe
    /\ stream' = [pc |-> "driving", run |-> r,
                  events |-> <<Event("runId", ""), Event("status", "")>>]
    /\ UNCHANGED <<env, extract, gemini, drive, rewrite, scan, rec>>

\* POST /api/runs: the terminal event.  threw: processQueuedRun rejected;
\* readOk: the read of the final state succeeds; an error caught by the outer
\* catch is reported with its own message.
TerminalEvent(threw, readOk, finalState) ==
  IF threw \/ ~readOk THEN Event("failed", "EIO")
  ELSE IF finalState.status = "completed" THEN Event("completed", "")
  ELSE IF finalState.status = "failed"
  THEN Event("failed", IF finalState.error # "" THEN finalState.error ELSE "Failed")
  ELSE Event("failed", "Run did not complete")

\* Variant: no catch around the driving of the run; when processQueuedRun
\* rejects, the stream is closed without a terminal event
StreamTerminal_NoCatch ==
  /\ stream.pc = "driving"
  /\ loop.pc \in {"sleep200", "dead"}
  /\ \E readOk \in BOOLEAN :
       stream' = IF loop.pc = "dead" THEN [stream EXCEPT !.pc = "closed"]
                 ELSE [stream EXCEPT !.pc = "closed",
                         !.events = Append(@, TerminalEvent(FALSE, readOk, store[stream.run]))]
  /\ loop' = [loop EXCEPT !.pc = "off", !.next = 0, !.state = NoRun]
  /\ pipe' = IdlePipe
  /\ UNCHANGED <<env, store, workerStarted, extract, gemini, drive, rewrite, scan, rec>>

\* POST /api/runs: after processQueuedRun, read the final state, send the
\* terminal event and close the stream
StreamTerminal ==
  /\ stream.pc = "driving"
  /\ loop.pc \in {"sleep200", "dead"}
  /\ \E readOk \in BOOLEAN :
       stream' = [stream EXCEPT !.pc = "closed",
                    !.events = Append(@, TerminalEvent(loop.pc = "dead", readOk,
                                                       store[stream.run]))]
  /\ loop' = [loop EXCEPT !.pc = "off", !.next = 0, !.state = NoRun]
  /\ pipe' = IdlePipe
  /\ UNCHANGED <<env, store, workerStarted, extract, gemini, drive, rewrite, scan, rec>>

InlineNext ==
  \/ InlinePost
  \/ ProcessRunStart
  \/ PipeWalk
  \/ PipeProgress5
  \/ PipeStartFile
  \/ PipeConvert
  \/ PipeFinally
  \/ PipeProgress90
  \/ PipeWriteManifest
  \/ PipeZip
  \/ PipeProgress100
  \/ ProcessRunCompleted
  \/ ProcessRunCatch
  \/ StreamTerminal

InlineSpec == Init /\ [][InlineNext]_vars

\* ------------------------------------------------- the extraction stage
\* One call of toMarkdown(filePath), step by step.  A file is represented by
\* its extension; the file-system reads and the remote attempts may fail.
Exts == {".md", ".txt", ".json", ".pdf", ".docx", ".html", ".bin"}

\* localToMarkdown: the extensions handled by an extractor that can throw
\* (pdf-parse, mammoth; empty text is thrown as an error too)
ThrowingExtractor(ext) == ext \in {".pdf", ".docx"}

\* the calls of toMarkdown: any extension, ingestion configured or not, and
\* the number of candidate URLs when it is
ExtractCalls ==
  { [IdleExtract EXCEPT !.pc = "toMarkdown", !.ext = e, !.hasIngestion = h, !.candidates = n] :
      e \in Exts, h \in BOOLEAN, n \in 1..MaxCandidates }

ExtractInit ==
  /\ hasOpenAi = FALSE /\ hasGemini = FALSE /\ relInput = <<>>
  /\ store = [r \in RunIds |-> NoRun]
  /\ workerStarted = FALSE
  /\ loop = [pc |-> "off", next |-> 0, state |-> NoRun, loops |-> 0]
  /\ pipe = IdlePipe
  /\ stream = IdleStream
  /\ gemini = IdleGemini
  /\ drive = IdleDrive
  /\ rewrite = IdleRewrite
  /\ scan = IdleScan
  /\ rec = IdleRec
  /\ extract \in ExtractCalls

notExtract ==
  <<hasOpenAi, hasGemini, relInput, store, workerStarted, loop, pipe, stream, gemini, drive,
    rewrite, scan, rec>>

\* toMarkdown: the test of hasIngestion
ToMarkdown ==
  /\ extract.pc = "toMarkdown"
  /\ extract' = [extract EXCEPT !.pc = IF extract.hasIngestion THEN "ingestionRead"
                                       ELSE "localRead"]
  /\ UNCHANGED notExtract

\* trelentIngestionToMarkdown: fs.readFile(filePath); its rejection is caught
\* by toMarkdown, which goes on with localToMarkdown
IngestionRead ==
  /\ extract.pc = "ingestionRead"
  /\ \E ok \in BOOLEAN :
       extract' = IF ok THEN [extract EXCEPT !.pc = "tryOnce", !.cand = 1, !.attempt = 1]
                  ELSE [extract EXCEPT !.pc = "localRead"]
  /\ UNCHANGED notExtract

\* Variant: a candidate is left after its first failure
IngestionAttempt_NoRetry ==
  /\ extract.pc = "tryOnce"
  /\ \E ok \in BOOLEAN :
       LET e == [extract EXCEPT !.tried = Append(@, extract.cand)]
       IN  extract' =
             IF ok THEN [e EXCEPT !.pc = "done", !.result = "remote"]
             ELSE IF extract.cand < extract.candidates
             THEN [e EXCEPT !.cand = @ + 1, !.attempt = 1]
             ELSE [e EXCEPT !.pc = "localRead"]
  /\ UNCHANGED notExtract

\* trelentIngestionToMarkdown: one tryOnce(url, attempt).  After the third
\* failure the next candidate is tried; after the last candidate the error
\* thrown is caught by toMarkdown.
IngestionAttempt ==
  /\ extract.pc = "tryOnce"
  /\ \E ok \in BOOLEAN :
       LET e == [extract EXCEPT !.tried = Append(@, extract.cand)]
       IN  extract' =
             IF ok THEN [e EXCEPT !.pc = "done", !.result = "remote"]
             ELSE IF extract.attempt < 3 THEN [e EXCEPT !.attempt = @ + 1]
             ELSE IF extract.cand < extract.candidates
             THEN [e EXCEPT !.cand = @ + 1, !.attempt = 1]
             ELSE [e EXCEPT !.pc = "localRead"]
  /\ UNCHANGED notExtract

\* localToMarkdown: fs.readFile(filePath), before its try block
LocalRead ==
  /\ extract.pc = "localRead"
  /\ \E ok \in BOOLEAN :
       extract' = IF ok THEN [extract EXCEPT !.pc = "localExtract"]
                  ELSE [extract EXCEPT !.pc = "done", !.result = "threw"]
  /\ UNCHANGED notExtract

\* localToMarkdown: the try block by extension, and its catch (raw decode)
LocalExtract ==
  /\ extract.pc = "localExtract"
  /\ \E ok \in BOOLEAN :
       extract' = [extract EXCEPT !.pc = "done",
                     !.result = IF ThrowingExtractor(extract.ext) /\ ~ok THEN "raw"
                                ELSE "local"]
  /\ UNCHANGED notExtract

ExtractNext ==
  \/ ToMarkdown
  \/ IngestionRead
  \/ IngestionAttempt
  \/ LocalRead
  \/ LocalExtract

ExtractSpec == ExtractInit /\ [][ExtractNext]_vars

\* ------------------------------------------------------ the Gemini queue
\* scheduleGeminiRequest: every call chains one callback on geminiQueue.  The
\* requests (gemini.req) are kept in the order of the calls; a request is "queued"
\* (its callback waits for the promise before it), "sleeping", "inflight"
\* (fn() is awaited) or "settled" (its callback has returned).
GeminiInit ==
  /\ hasOpenAi = FALSE /\ hasGemini = TRUE /\ relInput = <<>>
  /\ store = [r \in RunIds |-> NoRun]
  /\ workerStarted = FALSE
  /\ loop = [pc |-> "off", next |-> 0, state |-> NoRun, loops |-> 0]
  /\ pipe = IdlePipe
  /\ stream = IdleStream
  /\ extract = IdleExtract
  /\ gemini = IdleGemini
  /\ drive = IdleDrive
  /\ rewrite = IdleRewrite
  /\ scan = IdleScan
  /\ rec = IdleRec

notGemini ==
  <<hasOpenAi, hasGemini, relInput, store, workerStarted, loop, pipe, stream, extract, drive,
    rewrite, scan, rec>>

\* Variant: the callback is chained on a promise that is already resolved
\* (geminiQueue is not reassigned), so it does not wait for the request before it.
ChainReady_Unchained(i) == TRUE

\* geminiQueue.then(...): the callback of request i runs once the promise it
\* was chained on is resolved: the initial Promise.resolve() for the first
\* request, the callback of request i - 1 for the others
ChainReady(i) == IF i = 1 THEN TRUE ELSE gemini.req[i - 1].pc = "settled"

\* Variant: no spacing is computed
WaitMs_None(lastStartedAt, now) == 0

\* Math.max(0, geminiLastStartedAt + GEMINI_MIN_DELAY_MS - Date.now())
WaitMs(lastStartedAt, now) == Max(0, lastStartedAt + GEMINI_MIN_DELAY_MS - now)

\* geminiLastStartedAt = Date.now(); out = await fn(): request i is dispatched
Dispatch(g, i) ==
  [g EXCEPT !.lastStartedAt = g.now, !.dispatched = Append(@, i),
            !.req[i] = [@ EXCEPT !.pc = "inflight", !.wake = 0, !.startedAt = g.now]]

\* let out: T | undefined; let err: unknown = null: nothing yet
NoValue == [kind |-> "none", of |-> 0]

\* what fn() of request i resolves to, and what it rejects with
ValueOf(i) == [kind |-> "ok", of |-> i]
ErrorOf(i) == [kind |-> "err", of |-> i]

\* scheduleGeminiRequest, after await geminiQueue: what the caller receives,
\* from the out and err of its own call; of 0 is the error
\* "Gemini request scheduling failed"
Receive(out, err) ==
  IF err # NoValue THEN err
  ELSE IF out = NoValue THEN [kind |-> "err", of |-> 0]
  ELSE out

\* scheduleGeminiRequest, up to await geminiQueue: one more callback is chained
ScheduleGeminiRequest ==
  /\ Len(gemini.req) < MaxRequests
  /\ gemini' = [gemini EXCEPT !.req = Append(@, [pc |-> "queued", wake |-> 0, startedAt |-> 0,
                                                   settled |-> "none", got |-> NoValue])]
  /\ UNCHANGED notGemini

\* Variant: the callback lets the rejection of fn() through, so that the
\* promise of the queue rejects: the callbacks chained behind it are not run
\* and their callers receive the rejection of the request that failed
GeminiTurn_Poisoned ==
  \E i \in DOMAIN gemini.req :
    /\ gemini.req[i].pc = "queued"
    /\ ChainReady(i)
    /\ LET waitMs == WaitMs(gemini.lastStartedAt, gemini.now)
       IN  gemini' = IF i > 1 /\ gemini.req[i - 1].settled = "err"
                     THEN [gemini EXCEPT !.req[i] = [@ EXCEPT !.pc = "settled",
                                                               !.settled = "err",
                                                               !.got = gemini.req[i - 1].got]]
                     ELSE IF waitMs > 0
                     THEN [gemini EXCEPT !.req[i] = [@ EXCEPT !.pc = "sleeping",
                                                               !.wake = gemini.now + waitMs]]
                     ELSE Dispatch(gemini, i)
    /\ UNCHANGED notGemini

\* the callback of request i starts: it sleeps for waitMs, or dispatches at once
GeminiTurn ==
  \E i \in DOMAIN gemini.req :
    /\ gemini.req[i].pc = "queued"
    /\ ChainReady(i)
    /\ LET waitMs == WaitMs(gemini.lastStartedAt, gemini.now)
       IN  gemini' = IF waitMs > 0
                     THEN [gemini EXCEPT !.req[i] = [@ EXCEPT !.pc = "sleeping",
                                                               !.wake = gemini.now + waitMs]]
                     ELSE Dispatch(gemini, i)
    /\ UNCHANGED notGemini

\* sleep(waitMs) is over (the timer fires at its time or later)
GeminiWake ==
  \E i \in DOMAIN gemini.req :
    /\ gemini.req[i].pc = "sleeping"
    /\ gemini.now >= gemini.req[i].wake
    /\ gemini' = Dispatch(gemini, i)
    /\ UNCHANGED notGemini

\* fn() resolves or rejects; the value is kept in out or the rejection in err,
\* the callback returns, and the caller, which awaits the promise of this
\* callback, goes on with its out and err
GeminiSettle ==
  \E i \in DOMAIN gemini.req, ok \in BOOLEAN :
    /\ gemini.req[i].pc = "inflight"
    /\ LET out == IF ok THEN ValueOf(i) ELSE NoValue
           err == IF ok THEN NoValue ELSE ErrorOf(i)
       IN  gemini' = [gemini EXCEPT !.req[i] = [@ EXCEPT !.pc = "settled",
                                                        !.settled = IF ok THEN "ok" ELSE "err",
                                                        !.got = Receive(out, err)]]
    /\ UNCHANGED notGemini

\* time passes
Tick ==
  /\ gemini.now < GEMINI_MIN_DELAY_MS + MaxTicks * TickMs
  /\ gemini' = [gemini EXCEPT !.now = @ + TickMs]
  /\ UNCHANGED notGemini

GeminiNext ==
  \/ ScheduleGeminiRequest
  \/ GeminiTurn
  \/ GeminiWake
  \/ GeminiSettle
  \/ Tick

GeminiSpec == GeminiInit /\ [][GeminiNext]_vars

\* ------------------------------------------------------ the rewrite stage
\* The calls of rewriteToHtmlFragment made by one run, one per file, each
\* followed request by request.  rewrite.requests lists the requests of the
\* call in progress with their outcomes, rewrite.failed the providers that
\* have failed in it, rewrite.callbacks the calls of onPrimaryFailure.
OPENAI_MAX_ATTEMPTS == 3
GEMINI_MAX_ATTEMPTS == 2

\* tryOpenAi / tryGemini.callWith: maxAttempts
MaxAttemptsOf(provider) ==
  IF provider = "openai" THEN OPENAI_MAX_ATTEMPTS ELSE GEMINI_MAX_ATTEMPTS

\* the errors of one request, by the tests made on their message
Errors == {"retryable", "rateLimit", "quota", "auth"}

\* /\b429\b/, /rate\s*limit/i, /quota/i, /too\s+many\s+requests/i
IsLikelyRateLimitError(e) == e \in {"rateLimit", "quota"}

\* /\b(400|401|403|404)\b/, /invalid/i, /not\s+found/i
IsLikelyAuthOrBadRequest(e) == e = "auth"

\* /\b429\b/ together with /quota|billing|plan/i
IsGeminiQuotaOrBillingError(e) == e = "quota"

\* GEMINI_MODEL is set or not; the preference is the initial one of runPipeline
RewriteInit ==
  /\ hasOpenAi \in BOOLEAN
  /\ hasGemini \in BOOLEAN
  /\ relInput = <<>>
  /\ store = [r \in RunIds |-> NoRun]
  /\ workerStarted = FALSE
  /\ loop = [pc |-> "off", next |-> 0, state |-> NoRun, loops |-> 0]
  /\ pipe = IdlePipe
  /\ stream = IdleStream
  /\ extract = IdleExtract
  /\ gemini = IdleGemini
  /\ drive = IdleDrive
  /\ rewrite \in { [IdleRewrite EXCEPT !.envModel = m, !.preferred = InitialPreferred] :
                     m \in BOOLEAN }
  /\ scan = IdleScan
  /\ rec = IdleRec

notRewrite ==
  <<hasOpenAi, hasGemini, relInput, store, workerStarted, loop, pipe, stream, extract, gemini,
    drive, scan, rec>>

\* runPipeline calls rewriteToHtmlFragment for the next file, with the current
\* preference; without any provider the local renderer answers at once
RewriteCall ==
  /\ rewrite.pc \in {"idle", "returned"}
  /\ rewrite.files < MaxFiles
  /\ LET c == [IdleRewrite EXCEPT !.files = rewrite.files + 1, !.envModel = rewrite.envModel,
                                  !.preferred = rewrite.preferred,
                                  !.atCall = rewrite.preferred]
     IN  rewrite' =
           IF ~hasOpenAi /\ ~hasGemini
           THEN [c EXCEPT !.pc = "returned", !.outcome = "local"]
           ELSE [c EXCEPT !.pc = "callProvider", !.primary = Primary(rewrite.preferred),
                          !.provider = Primary(rewrite.preferred), !.apiType = "primary"]
  /\ UNCHANGED notRewrite

\* callProvider, up to the first request: tryOpenAi / tryGemini throw without
\* a key; tryGemini takes GEMINI_MODEL or asks listModels for a model
CallProvider ==
  /\ rewrite.pc = "callProvider"
  /\ \E found \in BOOLEAN :
       rewrite' =
         IF ~Configured(rewrite.provider) THEN [rewrite EXCEPT !.pc = "providerFailed"]
         ELSE IF rewrite.provider = "openai"
         THEN [rewrite EXCEPT !.pc = "attempt", !.attempt = 0, !.model = "gpt-5.1-mini"]
         ELSE IF rewrite.envModel
         THEN [rewrite EXCEPT !.pc = "attempt", !.attempt = 0, !.model = "env"]
         ELSE IF found
         THEN [rewrite EXCEPT !.pc = "attempt", !.attempt = 0, !.model = "autodetect"]
         ELSE [rewrite EXCEPT !.pc = "providerFailed"]
  /\ UNCHANGED notRewrite

\* retrying has thrown e: tryOpenAi fails; tryGemini looks for an alternative
\* model when the model came from GEMINI_MODEL and e is a quota, billing,
\* authentication or bad-request error
Thrown(r, e) ==
  IF /\ r.provider = "gemini"
     /\ r.model = "env"
     /\ (IsGeminiQuotaOrBillingError(e) \/ IsLikelyAuthOrBadRequest(e))
  THEN [r EXCEPT !.pc = "altModel"]
  ELSE [r EXCEPT !.pc = "providerFailed"]

\* retrying, after a failed attempt: a rate-limit, authentication or
\* bad-request error is thrown at once, any other error after the last attempt
Retry(r, e) ==
  IF IsLikelyRateLimitError(e) \/ IsLikelyAuthOrBadRequest(e) THEN Thrown(r, e)
  ELSE IF r.attempt < MaxAttemptsOf(r.provider) THEN r
  ELSE Thrown(r, e)

\* retrying: one onAttempt, that is one request to the provider
Attempt ==
  /\ rewrite.pc = "attempt"
  /\ \E out \in {"ok"} \cup Errors :
       LET r == [rewrite EXCEPT !.attempt = @ + 1,
                   !.requests = Append(@, [provider |-> rewrite.provider,
                                           model |-> rewrite.model, outcome |-> out])]
       IN  rewrite' = IF out = "ok" THEN [r EXCEPT !.pc = "returned", !.outcome = r.provider]
                      ELSE Retry(r, out)
  /\ UNCHANGED notRewrite

\* tryGemini: listModels for an alternative; callWith(alt) when it differs
\* from the configured model, throw the first error when there is none
AltModel ==
  /\ rewrite.pc = "altModel"
  /\ \E alt \in BOOLEAN :
       rewrite' = IF alt THEN [rewrite EXCEPT !.pc = "attempt", !.attempt = 0,
                                              !.model = "autodetect"]
                  ELSE [rewrite EXCEPT !.pc = "providerFailed"]
  /\ UNCHANGED notRewrite

\* Variant: the local renderer answers as soon as the primary has failed
ProviderFailed_NoFallback ==
  /\ rewrite.pc = "providerFailed"
  /\ rewrite' = [rewrite EXCEPT !.failed = @ \cup {rewrite.provider},
                                !.pc = "returned", !.outcome = "local"]
  /\ UNCHANGED notRewrite

\* rewriteToHtmlFragment, the two catch blocks: after the primary, the
\* callback and the fallback; after the fallback, the local renderer
ProviderFailed ==
  /\ rewrite.pc = "providerFailed"
  /\ rewrite' =
       IF rewrite.apiType = "primary"
       THEN [rewrite EXCEPT !.failed = @ \cup {rewrite.provider},
                            !.callbacks = @ + 1,
                            !.preferred = OnPrimaryFailure(@, rewrite.provider),
                            !.provider = Other(rewrite.primary),
                            !.apiType = "fallback",
                            !.pc = "callProvider"]
       ELSE [rewrite EXCEPT !.failed = @ \cup {rewrite.provider},
                            !.pc = "returned", !.outcome = "local"]
  /\ UNCHANGED notRewrite

RewriteNext ==
  \/ RewriteCall
  \/ CallProvider
  \/ Attempt
  \/ AltModel
  \/ ProviderFailed

RewriteSpec == RewriteInit /\ [][RewriteNext]_vars

\* ------------------------------------- two drivers in the serverless runtime
\* POST /api/runs calls ensureWorkerStarted() and then drives the run it has
\* just queued with processQueuedRun, while the background loop started by
\* ensureWorkerStarted scans the same store.  Each driver is followed through
\* the awaits of processRun: the read of the state, the write of the running
\* state, the pipeline (seen through its progress callbacks and its outcome)
\* and the write of the terminal state.
Drivers == {"loop", "inline"}

DualInit ==
  /\ hasOpenAi = FALSE /\ hasGemini = FALSE /\ relInput = <<>>
  /\ store = [r \in RunIds |-> NoRun]
  /\ workerStarted = FALSE
  /\ loop = [pc |-> "off", next |-> 0, state |-> NoRun, loops |-> 0]
  /\ pipe = IdlePipe
  /\ stream = IdleStream
  /\ extract = IdleExtract
  /\ gemini = IdleGemini
  /\ drive = IdleDrive
  /\ rewrite = IdleRewrite
  /\ scan = IdleScan
  /\ rec = IdleRec

notDual ==
  <<hasOpenAi, hasGemini, relInput, loop, pipe, stream, extract, gemini, rewrite, scan, rec>>

\* where a driver goes when processRun returns: the loop sleeps 200 ms and
\* scans again, the request sends its terminal event
Returned(d) == IF d = "loop" THEN "scan" ELSE "done"

\* POST /api/runs, serverless runtime: the queued state, ensureWorkerStarted()
\* and the call of processQueuedRun(runId)
DualPost ==
  \E r \in RunIds :
    /\ store[r].status = "absent"
    /\ drive.inline.pc \in {"off", "done"}
    /\ store' = [store EXCEPT ![r] = QueuedState]
    /\ workerStarted' = TRUE
    /\ drive' = [drive EXCEPT
                   !.loop = IF workerStarted THEN @ ELSE [@ EXCEPT !.pc = "scan"],
                   !.inline = [OffDriver EXCEPT !.pc = "read", !.next = r]]
    /\ UNCHANGED notDual

\* workerLoop: findNextQueuedRun() returns a run (with none, the loop sleeps
\* 800 ms and scans again)
DriveScan ==
  /\ drive.loop.pc = "scan"
  /\ \E unreadable \in SUBSET RunIds :
       LET next == FindNextQueuedRun(unreadable)
       IN  /\ next # 0
           /\ drive' = [drive EXCEPT !.loop = [OffDriver EXCEPT !.pc = "read", !.next = next]]
  /\ UNCHANGED <<notDual, store, workerStarted>>

\* processRun: const state = await readRunState(runId); if (state.status !== "queued") return
DriveRead(d) ==
  /\ drive[d].pc = "read"
  /\ \E ok \in BOOLEAN :
       drive' = [drive EXCEPT ![d] =
                   IF ~ok THEN [@ EXCEPT !.pc = "dead"]
                   ELSE IF store[drive[d].next].status # "queued"
                   THEN [@ EXCEPT !.pc = Returned(d)]
                   ELSE [@ EXCEPT !.pc = "write", !.state = store[drive[d].next]]]
  /\ UNCHANGED <<notDual, store, workerStarted>>

\* processRun: await writeRunState(runningState), then runPipeline(runningState, ...)
DriveWriteRunning(d) ==
  /\ drive[d].pc = "write"
  /\ \E ok \in BOOLEAN :
       IF ok
       THEN /\ store' = [store EXCEPT ![drive[d].next] = RunningState(drive[d].state)]
            /\ drive' = [drive EXCEPT ![d] = [@ EXCEPT !.pc = "runPipeline"],
                                      !.started = Append(@, drive[d].next)]
       ELSE /\ UNCHANGED store
            /\ drive' = [drive EXCEPT ![d] = [@ EXCEPT !.pc = "dead"]]
  /\ UNCHANGED <<notDual, workerStarted>>

\* processRun: one call of the progress callback by the pipeline, with a
\* progress above the stored one (the callback leaves a state alone that is
\* not running)
DriveProgress(d) ==
  /\ drive[d].pc = "runPipeline"
  /\ \E progress \in {5, 100} :
       /\ store[drive[d].next].status = "running"
       /\ store[drive[d].next].progress < progress
       /\ store' = [store EXCEPT ![drive[d].next] = ProgressState(@, progress, "Converting")]
  /\ UNCHANGED <<notDual, workerStarted, drive>>

\* processRun: runPipeline returns or throws, and the terminal state is written
DriveReturn(d) ==
  /\ drive[d].pc = "runPipeline"
  /\ \E returned, ok \in BOOLEAN :
       IF ok
       THEN /\ store' = [store EXCEPT ![drive[d].next] =
                           IF returned THEN CompletedState(drive[d].state, "guides.zip")
                           ELSE FailedState(drive[d].state, "EIO")]
            /\ drive' = [drive EXCEPT ![d] = [@ EXCEPT !.pc = Returned(d)]]
       ELSE /\ UNCHANGED store
            /\ drive' = [drive EXCEPT ![d] = [@ EXCEPT !.pc = "dead"]]
  /\ UNCHANGED <<notDual, workerStarted>>

\* what can go wrong in the download entrypoint: readRunState rejects,
\* fs.stat(zipPath) rejects, or the path is not a file
DownloadFaults == {"none", "read", "stat", "notFile"}

\* Variant: the download entrypoint without its test of the status
Respond_AnyStatus(status, fault) ==
  IF fault = "read" THEN "500"
  ELSE IF fault = "stat" THEN "500"
  ELSE IF fault = "notFile" THEN "404"
  ELSE "archive"

\* GET /api/runs/[runId]/download: the response, for the status stored
Respond(status, fault) ==
  IF fault = "read" THEN "500"
  ELSE IF status # "completed" THEN "400"
  ELSE IF fault = "stat" THEN "500"
  ELSE IF fault = "notFile" THEN "404"
  ELSE "archive"

\* GET /api/runs/[runId]/download for an existing run
Download ==
  \E r \in RunIds, fault \in DownloadFaults :
    /\ store[r].status # "absent"
    /\ drive' = [drive EXCEPT !.download =
                   [status |-> store[r].status, response |-> Respond(store[r].status, fault)]]
    /\ UNCHANGED <<notDual, store, workerStarted>>

DualNext ==
  \/ DualPost
  \/ DriveScan
  \/ \E d \in Drivers : DriveRead(d)
  \/ \E d \in Drivers : DriveWriteRunning(d)
  \/ \E d \in Drivers : DriveProgress(d)
  \/ \E d \in Drivers : DriveReturn(d)
  \/ Download

DualSpec == DualInit /\ [][DualNext]_vars

\* ------------------------------------------------- the scan of the scheduler
\* findNextQueuedRun followed read by read, with requests that create runs
\* between its reads.  scan.listing is what listRuns() returned, scan.seen what
\* each readRunState(runId) of the scan returned so far, scan.result the run
\* returned (0: null), scan.created the runs in the order of their creation.
\* The rest of the worker loop and the pipeline run as in Spec, for uploads of
\* at most one file.
ScanInit ==
  /\ hasOpenAi \in BOOLEAN
  /\ hasGemini \in BOOLEAN
  /\ relInput \in { l \in InputLists : Len(l) <= 1 }
  /\ store = [r \in RunIds |-> NoRun]
  /\ workerStarted = FALSE
  /\ loop = [pc |-> "off", next |-> 0, state |-> NoRun, loops |-> 0]
  /\ pipe = IdlePipe
  /\ stream = IdleStream
  /\ extract = IdleExtract
  /\ gemini = IdleGemini
  /\ drive = IdleDrive
  /\ rewrite = IdleRewrite
  /\ scan = IdleScan
  /\ rec = IdleRec

notScan == <<hasOpenAi, hasGemini, relInput, stream, extract, gemini, drive, rewrite, rec>>

\* POST /api/runs: the directory and the queued state of a fresh run, and
\* ensureWorkerStarted()
ScanPost ==
  \E r \in RunIds :
    /\ store[r].status = "absent"
    /\ store' = [store EXCEPT ![r] = QueuedState]
    /\ EnsureWorkerStarted
    /\ scan' = [scan EXCEPT !.created = Append(@, r)]
    /\ UNCHANGED <<notScan, pipe>>

\* the run directories, in the order of the enumeration
RECURSIVE Ascending(_, _)
Ascending(ids, from) ==
  IF from > MaxRuns THEN <<>>
  ELSE IF from \in ids THEN <<from>> \o Ascending(ids, from + 1)
  ELSE Ascending(ids, from + 1)

\* run-store.ts listRuns: the names of the run directories, or [] when the
\* directory cannot be read
ListRuns(ok) ==
  IF ok THEN Ascending({ r \in RunIds : store[r].status # "absent" }, 1) ELSE <<>>

\* findNextQueuedRun: const runIds = await listRuns()
ScanList ==
  /\ loop.pc = "scan"
  /\ scan.pc \in {"idle", "returned"}
  /\ \E ok \in BOOLEAN :
       scan' = [scan EXCEPT !.pc = "reading", !.listing = ListRuns(ok), !.seen = <<>>,
                            !.result = 0]
  /\ UNCHANGED <<notScan, store, workerStarted, loop, pipe>>

\* Variant: a read that rejects ends the scan, nothing is returned
ScanRead_StopOnError ==
  /\ loop.pc = "scan"
  /\ scan.pc = "reading"
  /\ IF Len(scan.seen) = Len(scan.listing)
     THEN /\ scan' = [scan EXCEPT !.pc = "returned"]
          /\ loop' = [loop EXCEPT !.pc = "sleep800"]
     ELSE \E ok \in BOOLEAN :
            LET runId == scan.listing[Len(scan.seen) + 1]
                s     == store[runId]
            IN  IF ~ok
                THEN /\ scan' = [scan EXCEPT !.pc = "returned", !.seen = Append(@, "unreadable")]
                     /\ loop' = [loop EXCEPT !.pc = "sleep800"]
                ELSE IF s.status = "queued"
                THEN /\ scan' = [scan EXCEPT !.pc = "returned", !.result = runId,
                                             !.seen = Append(@, s.status)]
                     /\ loop' = [loop EXCEPT !.pc = "processRun", !.next = runId]
                ELSE /\ scan' = [scan EXCEPT !.seen = Append(@, s.status)]
                     /\ UNCHANGED loop
  /\ UNCHANGED <<notScan, store, workerStarted, pipe>>

\* findNextQueuedRun, one turn of its loop (or its end), and what workerLoop
\* does with the value returned
ScanRead ==
  /\ loop.pc = "scan"
  /\ scan.pc = "reading"
  /\ IF Len(scan.seen) = Len(scan.listing)
     THEN /\ scan' = [scan EXCEPT !.pc = "returned"]
          /\ loop' = [loop EXCEPT !.pc = "sleep800"]
     ELSE \E ok \in BOOLEAN :
            LET runId == scan.listing[Len(scan.seen) + 1]
                s     == store[runId]
            IN  IF ~ok
                THEN /\ scan' = [scan EXCEPT !.seen = Append(@, "unreadable")]
                     /\ UNCHANGED loop
                ELSE IF s.status = "queued"
                THEN /\ scan' = [scan EXCEPT !.pc = "returned", !.result = runId,
                                             !.seen = Append(@, s.status)]
                     /\ loop' = [loop EXCEPT !.pc = "processRun", !.next = runId]
                ELSE /\ scan' = [scan EXCEPT !.seen = Append(@, s.status)]
                     /\ UNCHANGED loop
  /\ UNCHANGED <<notScan, store, workerStarted, pipe>>

ScanNext ==
  \/ ScanPost
  \/ ScanList
  \/ ScanRead
  \/ Sleep800Done
  \/ Sleep200Done
  \/ ProcessRunStart
  \/ PipeWalk
  \/ PipeProgress5
  \/ PipeStartFile
  \/ PipeConvert
  \/ PipeFinally
  \/ PipeProgress90
  \/ PipeWriteManifest
  \/ PipeZip
  \/ PipeProgress100
  \/ ProcessRunCompleted
  \/ ProcessRunCatch

ScanSpec == ScanInit /\ [][ScanNext]_vars

\* ------------------------------------------------- the record of one run
\* state.json of one run with every field of RunState, written by the creation
\* entrypoint and by the calls of processRun that drive the run: the one of
\* the background loop and, in the serverless runtime, the one of the request.
\* A field that is absent from the JSON is absent from the record.  rec.now is
\* the clock behind new Date().toISOString().
RUN_ID    == "run-1"
UPLOAD_ID == "upload-1"
ZIP_PATH  == "output/run-1/guides.zip"

\* { ...a, ...b }
Spread(a, b) == [k \in (DOMAIN a) \cup (DOMAIN b) |-> IF k \in DOMAIN b THEN b[k] ELSE a[k]]

\* POST /api/runs: the state written for a new run
QueuedRecord(runId, uploadId, now) ==
  [runId |-> runId, uploadId |-> uploadId, status |-> "queued", progress |-> 0,
   message |-> "Queued", createdAt |-> now, updatedAt |-> now]

\* Variant: the running state stamps createdAt again
RunningRecord_NewCreatedAt(state, now) ==
  Spread(state, [status |-> "running", progress |-> Max(0, state.progress), updatedAt |-> now,
                 message |-> "Starting...", createdAt |-> now])

\* processRun: runningState
RunningRecord(state, now) ==
  Spread(state, [status |-> "running", progress |-> Max(0, state.progress), updatedAt |-> now,
                 message |-> "Starting..."])

\* the updates a pipeline can hand to the progress callback: any number as
\* progress, with or without a description of the current work
ProgressInputs == {-5, 50, 105}
Updates ==
  { [progress |-> p, message |-> "Converting", stage |-> st] :
      p \in ProgressInputs, st \in {"none", "converting"} }

\* Variant: the progress of the update is written as it comes
CallbackRecord_NoClamp(cur, u, now) ==
  Spread(cur,
         IF u.stage # "none"
         THEN [progress |-> u.progress, message |-> u.message,
               current |-> [stage |-> u.stage], updatedAt |-> now]
         ELSE [progress |-> u.progress, message |-> u.message, updatedAt |-> now])

\* processRun, progress callback: the state written for a running run.
\* Without a description in the update, current: cur.current keeps the field
\* as it is (absent when it is absent).
CallbackRecord(cur, u, now) ==
  Spread(cur,
         IF u.stage # "none"
         THEN [progress |-> Max(0, Min(100, u.progress)), message |-> u.message,
               current |-> [stage |-> u.stage], updatedAt |-> now]
         ELSE [progress |-> Max(0, Min(100, u.progress)), message |-> u.message,
               updatedAt |-> now])

\* processRun: the completed state
CompletedRecord(runId, state, zipPath, now) ==
  [runId |-> runId, uploadId |-> state.uploadId, status |-> "completed", progress |-> 100,
   message |-> "Complete", downloadPath |-> zipPath, createdAt |-> state.createdAt,
   updatedAt |-> now, completedAt |-> now]

\* processRun, catch: the failed state
FailedRecord(runId, state, e, now) ==
  [runId |-> runId, uploadId |-> state.uploadId, status |-> "failed",
   progress |-> Max(0, state.progress), error |-> PUBLIC_RUN_ERROR, debugError |-> e,
   createdAt |-> state.createdAt, updatedAt |-> now, failedAt |-> now]

RecordInit ==
  /\ hasOpenAi = FALSE /\ hasGemini = FALSE /\ relInput = <<>>
  /\ store = [r \in RunIds |-> NoRun]
  /\ workerStarted = FALSE
  /\ loop = [pc |-> "off", next |-> 0, state |-> NoRun, loops |-> 0]
  /\ pipe = IdlePipe
  /\ stream = IdleStream
  /\ extract = IdleExtract
  /\ gemini = IdleGemini
  /\ drive = IdleDrive
  /\ rewrite = IdleRewrite
  /\ scan = IdleScan
  /\ rec = IdleRec

notRecord ==
  <<hasOpenAi, hasGemini, relInput, store, loop, pipe, stream, extract, gemini, drive, rewrite,
    scan>>

\* POST /api/runs: the queued state, ensureWorkerStarted() and, in the
\* serverless runtime, the call of processQueuedRun(runId)
RecordPost ==
  /\ rec.state = NoRecord
  /\ \E serverless \in BOOLEAN :
       rec' = [rec EXCEPT !.state = QueuedRecord(RUN_ID, UPLOAD_ID, rec.now),
                          !.loop = [OffCall EXCEPT !.pc = "scan"],
                          !.inline = IF serverless THEN [OffCall EXCEPT !.pc = "read"] ELSE @]
  /\ workerStarted' = TRUE
  /\ UNCHANGED notRecord

\* workerLoop: findNextQueuedRun() returns the run
RecordScan ==
  /\ rec.loop.pc = "scan"
  /\ rec.state.status = "queued"
  /\ rec' = [rec EXCEPT !.loop = [OffCall EXCEPT !.pc = "read"]]
  /\ UNCHANGED <<notRecord, workerStarted>>

\* processRun: const state = await readRunState(runId); if (state.status !== "queued") return
RecordRead(d) ==
  /\ rec[d].pc = "read"
  /\ \E ok \in BOOLEAN :
       rec' = [rec EXCEPT ![d] =
                 IF ~ok THEN [OffCall EXCEPT !.pc = "dead"]
                 ELSE IF rec.state.status # "queued" THEN [OffCall EXCEPT !.pc = Returned(d)]
                 ELSE [OffCall EXCEPT !.pc = "write", !.state = rec.state]]
  /\ UNCHANGED <<notRecord, workerStarted>>

\* processRun: await writeRunState(runningState)
RecordWriteRunning(d) ==
  /\ rec[d].pc = "write"
  /\ \E ok \in BOOLEAN :
       rec' = IF ok
              THEN [rec EXCEPT !.state = RunningRecord(rec[d].state, rec.now),
                               ![d] = [rec[d] EXCEPT !.pc = "runPipeline"]]
              ELSE [rec EXCEPT ![d] = [OffCall EXCEPT !.pc = "dead"]]
  /\ UNCHANGED <<notRecord, workerStarted>>

\* progress callback: const cur = await readRunState(runId), for an update u
RecordCallbackRead(d) ==
  /\ rec[d].pc = "runPipeline"
  /\ \E u \in Updates :
       rec' = [rec EXCEPT ![d] = [rec[d] EXCEPT !.pc = "callback", !.cur = rec.state, !.u = u]]
  /\ UNCHANGED <<notRecord, workerStarted>>

\* Variant: the callback writes whatever the status it read
RecordCallbackWrite_NoTest(d) ==
  /\ rec[d].pc = "callback"
  /\ \E ok \in BOOLEAN :
       rec' = IF ok
              THEN [rec EXCEPT !.state = CallbackRecord(rec[d].cur, rec[d].u, rec.now),
                               ![d] = [OffCall EXCEPT !.pc = "runPipeline",
                                                      !.state = rec[d].state]]
              ELSE [rec EXCEPT ![d] = [OffCall EXCEPT !.pc = "threw", !.state = rec[d].state]]
  /\ UNCHANGED <<notRecord, workerStarted>>

\* progress callback: if (cur.status !== "running") return; await writeRunState({ ...cur, ... })
\* A rejected write rejects the callback and, with it, runPipeline.
RecordCallbackWrite(d) ==
  /\ rec[d].pc = "callback"
  /\ IF rec[d].cur.status # "running"
     THEN rec' = [rec EXCEPT ![d] = [OffCall EXCEPT !.pc = "runPipeline",
                                                    !.state = rec[d].state]]
     ELSE \E ok \in BOOLEAN :
            rec' = IF ok
                   THEN [rec EXCEPT !.state = CallbackRecord(rec[d].cur, rec[d].u, rec.now),
                                    ![d] = [OffCall EXCEPT !.pc = "runPipeline",
                                                           !.state = rec[d].state]]
                   ELSE [rec EXCEPT ![d] = [OffCall EXCEPT !.pc = "threw",
                                                           !.state = rec[d].state]]
  /\ UNCHANGED <<notRecord, workerStarted>>

\* processRun: runPipeline returns and the completed state is written, or it
\* throws; a rejected write of the completed state is caught like an
\* exception of the pipeline
RecordReturn(d) ==
  /\ rec[d].pc = "runPipeline"
  /\ \E returned, ok \in BOOLEAN :
       rec' = IF returned /\ ok
              THEN [rec EXCEPT !.state = CompletedRecord(RUN_ID, rec[d].state, ZIP_PATH, rec.now),
                               ![d] = [OffCall EXCEPT !.pc = Returned(d)]]
              ELSE [rec EXCEPT ![d] = [rec[d] EXCEPT !.pc = "threw"]]
  /\ UNCHANGED <<notRecord, workerStarted>>

\* processRun, catch: the failed state is written
RecordFailed(d) ==
  /\ rec[d].pc = "threw"
  /\ \E ok \in BOOLEAN :
       rec' = IF ok
              THEN [rec EXCEPT !.state = FailedRecord(RUN_ID, rec[d].state, "EIO", rec.now),
                               ![d] = [OffCall EXCEPT !.pc = Returned(d)]]
              ELSE [rec EXCEPT ![d] = [OffCall EXCEPT !.pc = "dead"]]
  /\ UNCHANGED <<notRecord, workerStarted>>

\* time passes
RecordTick ==
  /\ rec.now < MaxClock
  /\ rec' = [rec EXCEPT !.now = @ + 1]
  /\ UNCHANGED <<notRecord, workerStarted>>

RecordNext ==
  \/ RecordPost
  \/ RecordScan
  \/ \E d \in Drivers : RecordRead(d)
  \/ \E d \in Drivers : RecordWriteRunning(d)
  \/ \E d \in Drivers : RecordCallbackRead(d)
  \/ \E d \in Drivers : RecordCallbackWrite(d)
  \/ \E d \in Drivers : RecordReturn(d)
  \/ \E d \in Drivers : RecordFailed(d)
  \/ RecordTick

RecordSpec == RecordInit /\ [][RecordNext]_vars

\* ------------------------------------------------------------- properties
Terminal == {"completed", "failed"}
Running == { r \in RunIds : store[r].status = "running" }
Pending == { r \in RunIds : store[r].status \in {"queued", "running"} }

StatusStep(a, b) ==
  \/ a = b
  \/ <<a, b>> \in { <<"absent", "queued">>, <<"queued", "running">>,
                    <<"running", "completed">>, <<"running", "failed">> }

C2_AtMostOneRunning ==
  /\ Cardinality(Running) <= 1
  /\ Running \subseteq {loop.next}
  /\ loop.pc \in {"off", "scan", "sleep800", "sleep200", "processRun"} => Running = {}

\* C2 witness: a run is running while another run is queued.
C2_Witness ==
  \E r, q \in RunIds : store[r].status = "running" /\ store[q].status = "queued"

\* C3 (as claimed): a run that is queued or running is never stranded: the
\* worker loop can always take its next step towards the run's terminal state.
C3_PendingRunIsServed == Pending # {} => ENABLED LoopNext

\* C4 (as claimed): a rejected read or write of a run state never ends the
\* worker loop.
C4_LoopSurvivesStoreErrors == workerStarted => loop.pc # "dead"

\* C5 (as claimed): when every configured rewrite provider is exhausted for a
\* file, the file's processing ends in the critical error: no record and no
\* output is written for it.
C5_ExhaustionAborts ==
  (pipe.pc = "finally" /\ pipe.exhausted) =>
     /\ pipe.err = "critical"
     /\ pipe.outName \notin DOMAIN pipe.guides
     /\ \A i \in DOMAIN pipe.manifest : pipe.manifest[i].sourcePath # pipe.idx

\* C6 (as claimed): the output file names of the records of a run are
\* pairwise distinct.
C6_OutputNamesDistinct ==
  \A i, j \in DOMAIN pipe.manifest :
     i # j => pipe.manifest[i].outputFile # pipe.manifest[j].outputFile

\* C7: while a run is queued or running, the progress stored for it never
\* decreases.
C7_ProgressMonotone ==
  [][\A r \in RunIds :
       (store[r].status \in {"queued", "running"} /\ store'[r].status \in {"queued", "running"})
          => store'[r].progress >= store[r].progress]_vars

\* C7 witness: a running run whose stored progress has gone through the file
\* events up to the "Creating zip..." event.
C7_Witness ==
  \E r \in RunIds : store[r].status = "running" /\ store[r].progress = ZipProgress

\* C8 (as claimed): the stored progress of a run is 100 if and only if its
\* status is completed.
C8_HundredIffCompleted ==
  \A r \in RunIds :
     store[r].status # "absent" => (store[r].progress = 100 <=> store[r].status = "completed")

\* C8 (amended): a completed run has progress 100; a run with progress 100 is
\* completed, or it is the running run whose pipeline has emitted its final
\* event and whose terminal state is not yet written; a queued or failed run
\* never has progress 100.
C8_HundredOnlyAtTheEnd ==
  \A r \in RunIds :
     /\ store[r].status = "completed" => store[r].progress = 100
     /\ (store[r].progress = 100 /\ store[r].status # "completed") =>
           (store[r].status = "running" /\ pipe.run = r /\ pipe.pc = "returned")

\* C8 witness: a completed run (with its progress of 100) next to a failed one.
C8_Witness ==
  \E r, q \in RunIds :
     /\ store[r].status = "completed" /\ store[r].progress = 100
     /\ store[q].status = "failed" /\ store[q].progress < 100

\* C9 (as claimed): a completed run has one manifest record per input file,
\* in discovery order, and its archive holds as many files as there are inputs.
C9_OneOutputPerInput ==
  (pipe.run # 0 /\ store[pipe.run].status = "completed") =>
     /\ Len(pipe.manifest) = Len(relInput)
     /\ \A i \in DOMAIN pipe.manifest : pipe.manifest[i].sourcePath = i
     /\ Cardinality(pipe.zipFiles) = Len(relInput)

\* C10 (as claimed): a file whose processing raised a non-critical error
\* leaves the catch block with a placeholder as its output and an error
\* record, and with no exception pending, so that the loop goes on.
C10_NonCriticalContinues ==
  (pipe.pc = "finally" /\ pipe.err = "noncritical") =>
     /\ pipe.thrown = "none"
     /\ MapGet(pipe.guides, pipe.outName, "none") = "placeholder"
     /\ Len(pipe.manifest) > 0
     /\ pipe.manifest[Len(pipe.manifest)] =
           [sourcePath |-> pipe.idx, outputFile |-> pipe.outName, status |-> "error"]

\* C11 (as claimed): a run is failed only by the structural error (zero input
\* files) or by a critical error of a file; no other error fails the run.
C11_FailsOnlyStructuralOrCritical ==
  \A r \in RunIds :
     store[r].status = "failed" =>
        \/ store[r].debugError = "No uploaded files found"
        \/ IsCritical(store[r].debugError)

\* C12 (as claimed): for a run that has ended failed, the error of the stored
\* state and the error of the 'failed' event of the inline stream are the
\* generic message, whatever the cause.
C12_FailedExposesGenericOnly ==
  /\ \A r \in RunIds : store[r].status = "failed" => store[r].error = PUBLIC_RUN_ERROR
  /\ \A i \in DOMAIN stream.events :
        (stream.events[i].type = "failed" /\ store[stream.run].status = "failed")
           => stream.events[i].error = PUBLIC_RUN_ERROR

NoProvider == ~hasOpenAi /\ ~hasGemini

AllOk(manifest) == \A i \in DOMAIN manifest : manifest[i].status = "ok"

C14_ExtractionNeverRaises ==
  /\ extract.result # "threw"
  /\ ~extract.hasIngestion => extract.tried = <<>>
  /\ extract.pc = "done" => extract.result \in {"remote", "local", "raw"}

\* C15: however often ensureWorkerStarted is called, at most one worker loop
\* has been started: the first call starts it and every later call, made
\* while the loop scans, sleeps or drives a run, starts nothing.
C15_AtMostOneLoop ==
  /\ loop.loops <= 1
  /\ workerStarted <=> loop.loops = 1
  /\ loop.pc = "off" <=> loop.loops = 0

\* C15 witness: ensureWorkerStarted has been called MaxRuns times (once per
\* run created) and the one loop is in the middle of a run.
C15_Witness ==
  /\ \A r \in RunIds : store[r].status # "absent"
  /\ loop.pc = "runPipeline" /\ pipe.pc = "convert"
  /\ loop.loops = 1

\* the positions of runPipeline at which preferredRewriteProvider is in scope
PreferenceInScope == {"p5", "file", "convert", "finally", "manifest", "zip", "p100", "returned"}

\* C16 (as claimed): once the preference of a run has flipped away from the
\* initially preferred provider, it stays what it is for the rest of the run.
C16_PreferenceFlipsOnce ==
  [][(/\ pipe.run # 0 /\ pipe'.run = pipe.run
      /\ pipe.pc \in PreferenceInScope /\ pipe'.pc \in PreferenceInScope
      /\ pipe.preferred # InitialPreferred)
        => pipe'.preferred = pipe.preferred]_vars

\* C17 (as claimed): with both providers configured, once the preferred
\* provider has failed for a file k and the other provider has answered in its
\* place (pipe.takenOver), every file after k attempts that other provider
\* first.
C17_LaterFilesUseTheOther ==
  (hasOpenAi /\ hasGemini /\ pipe.takenOver # "none" /\ pipe.pc = "convert") =>
     Primary(pipe.preferred) = pipe.takenOver

\* C18 (as claimed): a run that has ended failed has no manifest and no
\* archive; a manifest is written only when every file has its record.
C18_FailedHasNoManifest ==
  /\ (pipe.run # 0 /\ store[pipe.run].status = "failed") =>
        (~pipe.manifestWritten /\ ~pipe.zipCreated)
  /\ (pipe.manifestWritten /\ pipe.pc # "threw") =>
        (pipe.idx = Len(relInput) /\ Len(pipe.manifest) = Len(relInput))

InFlight == { i \in DOMAIN gemini.req : gemini.req[i].pc = "inflight" }

\* C19: at most one request scheduled through scheduleGeminiRequest is in
\* flight at any time, and the requests are dispatched in the order in which
\* they were enqueued (the k-th dispatch is the k-th call), whoever called.
C19_GeminiSerialized ==
  /\ Cardinality(InFlight) <= 1
  /\ \A k \in DOMAIN gemini.dispatched : gemini.dispatched[k] = k
  /\ \A i \in DOMAIN gemini.req :
        gemini.req[i].pc \in {"sleeping", "inflight"} =>
           \A j \in DOMAIN gemini.req :
              (j < i => gemini.req[j].pc = "settled") /\ (j > i => gemini.req[j].pc = "queued")

\* C19 witness: the first request is in flight while all others are enqueued
\* behind it.
C19_Witness ==
  /\ Len(gemini.req) = MaxRequests
  /\ gemini.req[1].pc = "inflight"
  /\ \A i \in 2..MaxRequests : gemini.req[i].pc = "queued"

\* C20: the dispatch times of two consecutive dispatches are at least
\* GEMINI_MIN_DELAY_MS apart, also after a request that failed.
C20_MinDelayBetweenDispatches ==
  \A k \in DOMAIN gemini.dispatched :
     k > 1 => gemini.req[gemini.dispatched[k]].startedAt
                >= gemini.req[gemini.dispatched[k - 1]].startedAt + GEMINI_MIN_DELAY_MS

\* C20 witness: a request failed, and the next request, enqueued meanwhile,
\* was held back and dispatched exactly GEMINI_MIN_DELAY_MS after it.
C20_Witness ==
  /\ Len(gemini.dispatched) >= 2
  /\ gemini.req[1].settled = "err"
  /\ gemini.req[2].startedAt = gemini.req[1].startedAt + GEMINI_MIN_DELAY_MS

\* C21 (as claimed): the pipeline is started, and the running state written,
\* at most once per run, also when the request drives the run it queued while
\* the background loop scans the store.
C21_OneDriverPerRun ==
  \A i, j \in DOMAIN drive.started : i # j => drive.started[i] # drive.started[j]

\* C22: the download entrypoint answers with the archive only when the status
\* it read is completed; for a queued, running or failed run it answers with
\* an error and streams nothing.
C22_ArchiveOnlyWhenCompleted ==
  /\ drive.download.response = "archive" => drive.download.status = "completed"
  /\ drive.download.status \in {"queued", "running", "failed"} =>
        drive.download.response \in {"400", "500"}

\* C22 witness: the archive of a completed run has been served, and so has an
\* error for another run that is not completed.
C22_Witness ==
  /\ drive.download.response = "archive"
  /\ \E r \in RunIds : store[r].status \in {"queued", "running", "failed"}

C24_ManifestZipDoneInOrder ==
  /\ pipe.pc \in {"walk", "p5", "file", "convert", "finally"} =>
        (~pipe.manifestWritten /\ ~pipe.zipCreated)
  /\ pipe.pc = "manifest" =>
        /\ pipe.idx = Len(relInput) /\ Len(pipe.manifest) = Len(relInput)
        /\ pipe.manifest[Len(relInput)].sourcePath = Len(relInput)
        /\ ~pipe.manifestWritten /\ ~pipe.zipCreated
  /\ pipe.pc = "zip" => (pipe.manifestWritten /\ ~pipe.zipCreated)
  /\ pipe.zipCreated => pipe.manifestWritten
  /\ \A k \in DOMAIN pipe.emitted :
        pipe.emitted[k] = 100 => (pipe.zipCreated /\ k = Len(pipe.emitted))
  /\ (pipe.run # 0 /\ store[pipe.run].status = "completed") =>
        /\ pipe.pc = "returned"
        /\ pipe.emitted # <<>> /\ pipe.emitted[Len(pipe.emitted)] = 100

\* C24 witness: a run of MaxFiles files is completed, after its manifest, its
\* archive and its 100% event.
C24_Witness ==
  /\ Len(relInput) = MaxFiles
  /\ pipe.run # 0 /\ store[pipe.run].status = "completed"
  /\ pipe.manifestWritten /\ pipe.zipCreated
  /\ pipe.emitted[Len(pipe.emitted)] = 100

\* num / den rounded to the nearest integer
Round(num, den) == CHOOSE v \in 0..200 : 2 * den * v <= 2 * num + den /\ 2 * num + den < 2 * den * (v + 1)

\* the progress events claimed for a run of n files: 5, then before and after
\* each file i the values round(5 + 80 (i - 1) / n) and round(5 + 80 i / n),
\* then 90, then 100
ClaimedEvents ==
  [n \in 1..MaxFiles |->
     [k \in 1..(2 * n + 3) |->
        IF k = 1 THEN 5
        ELSE IF k = 2 * n + 2 THEN 90
        ELSE IF k = 2 * n + 3 THEN 100
        ELSE IF k % 2 = 0 THEN Round(5 * n + 80 * ((k \div 2) - 1), n)
        ELSE Round(5 * n + 80 * ((k - 1) \div 2), n)]]

IsPrefix(s, t) == Len(s) <= Len(t) /\ \A k \in DOMAIN s : s[k] = t[k]

\* C30: for a run of n >= 1 files the progress events emitted so far are the
\* first events of 5, (before, after) for each file, 90, 100; a pipeline that
\* has returned has emitted them all; every value lies in 5..100 and the value
\* after the last file is 85.
C30_ProgressEventSequence ==
  Len(relInput) >= 1 =>
     /\ IsPrefix(pipe.emitted, ClaimedEvents[Len(relInput)])
     /\ pipe.pc = "returned" => pipe.emitted = ClaimedEvents[Len(relInput)]
     /\ \A k \in DOMAIN pipe.emitted : pipe.emitted[k] \in 5..100
     /\ pipe.pc = "file" /\ pipe.idx = Len(relInput) => pipe.emitted[Len(pipe.emitted)] = 85

\* C30 witness: the pipeline of a run of MaxFiles files has returned after
\* emitting all its events.
C30_Witness ==
  /\ Len(relInput) = MaxFiles
  /\ pipe.pc = "returned"
  /\ Len(pipe.emitted) = 2 * MaxFiles + 3

Providers == {"openai", "gemini"}

\* the requests sent to provider p in the call in progress
RequestsTo(p) == { k \in DOMAIN rewrite.requests : rewrite.requests[k].provider = p }

\* C25 (as claimed): in one call, every configured provider is sent at most 3
\* requests, and a provider that has failed on retryable errors only has been
\* sent 3.
C25_ThreeAttemptsPerProvider ==
  \A p \in Providers :
     Configured(p) =>
        /\ Cardinality(RequestsTo(p)) <= 3
        /\ ( /\ p \in rewrite.failed
             /\ RequestsTo(p) # {}
             /\ \A k \in RequestsTo(p) : rewrite.requests[k].outcome = "retryable" )
           => Cardinality(RequestsTo(p)) = 3

\* C26 (as claimed): in one call, no request is sent to a provider after a
\* request to it has failed with a rate-limit, quota, authentication or
\* bad-request error, not with another model either.
C26_FatalErrorAbandonsProvider ==
  \A j, k \in DOMAIN rewrite.requests :
     (j < k /\ rewrite.requests[j].provider = rewrite.requests[k].provider)
        => rewrite.requests[j].outcome \notin {"rateLimit", "quota", "auth"}

C28_CallbackOncePerFile ==
  /\ rewrite.callbacks <= 1
  /\ rewrite.callbacks = 1 <=> rewrite.primary \in rewrite.failed
  /\ (rewrite.pc # "idle" /\ rewrite.preferred # rewrite.atCall) =>
        /\ hasOpenAi /\ hasGemini
        /\ rewrite.callbacks = 1
        /\ rewrite.primary = rewrite.atCall
        /\ rewrite.preferred = Other(rewrite.atCall)
  /\ (hasOpenAi # hasGemini) => rewrite.preferred = InitialPreferred

\* C28 witness: with one provider configured, the callback has been called
\* for a second file and the preference is still the initial one.
C28_Witness ==
  /\ hasOpenAi # hasGemini
  /\ rewrite.files = 2 /\ rewrite.callbacks = 1
  /\ rewrite.preferred = InitialPreferred

\* C29: the remote attempts made for one file are the first attempts of
\* c1,c1,c1,c2,c2,c2,...,cm,cm,cm over the m candidates in configured order;
\* a successful attempt ends the call with the remote text, so that no attempt
\* follows it; the local extractor is reached only after the read of the file
\* failed or all 3m attempts did.
C29_CandidatesInOrder ==
  /\ Len(extract.tried) <= 3 * extract.candidates
  /\ \A k \in DOMAIN extract.tried : extract.tried[k] = ((k - 1) \div 3) + 1
  /\ extract.result = "remote" => (extract.pc = "done" /\ extract.tried # <<>>)
  /\ extract.pc = "tryOnce" =>
        (extract.result = "none" /\ Len(extract.tried) = 3 * (extract.cand - 1) + extract.attempt - 1)
  /\ (extract.hasIngestion /\ extract.pc \in {"localRead", "localExtract"}) =>
        Len(extract.tried) \in {0, 3 * extract.candidates}

\* C29 witness: with MaxCandidates candidates, the third attempt at the last
\* one has returned the text.
C29_Witness ==
  /\ extract.candidates = MaxCandidates
  /\ Len(extract.tried) = 3 * MaxCandidates
  /\ extract.result = "remote"

\* the position of run r in a sequence of runs (0: not in it)
PositionIn(seq, r) ==
  IF \E k \in DOMAIN seq : seq[k] = r THEN CHOOSE k \in DOMAIN seq : seq[k] = r ELSE 0

\* C31: a scan of the scheduler reads the runs in the order of the enumeration
\* of the Run Store and returns the first one it reads as queued; a run whose
\* state cannot be read is passed over and the scan goes on; nothing is
\* returned only when every run of the listing has been read and none was
\* queued.
C31_FirstQueuedInEnumerationOrder ==
  /\ \A j, k \in DOMAIN scan.listing : j < k => scan.listing[j] < scan.listing[k]
  /\ Len(scan.seen) <= Len(scan.listing)
  /\ \A k \in DOMAIN scan.seen :
        scan.seen[k] = "queued" => (k = Len(scan.seen) /\ scan.result = scan.listing[k])
  /\ scan.result # 0 <=> (scan.seen # <<>> /\ scan.seen[Len(scan.seen)] = "queued")
  /\ (scan.pc = "returned" /\ scan.result = 0) => Len(scan.seen) = Len(scan.listing)
  /\ (scan.pc = "reading" /\ loop.pc = "scan") => scan.result = 0

\* C31, its case: the scan returns a run while a run created before it, and
\* queued as well, comes later in the enumeration
C31_Witness ==
  /\ scan.pc = "returned" /\ scan.result # 0
  /\ \E q \in RunIds :
       /\ store[q].status = "queued"
       /\ PositionIn(scan.listing, q) > PositionIn(scan.listing, scan.result)
       /\ PositionIn(scan.created, q) < PositionIn(scan.created, scan.result)

\* the fields a progress update may change
ProgressFields == {"progress", "message", "current", "updatedAt"}

C34_ProgressInRange ==
  rec.state # NoRecord => rec.state.progress \in 0..100

\* C34, its case: an update above 100 has been written to a running record
C34_Witness ==
  /\ rec.state.status = "running"
  /\ rec.state.message = "Converting"
  /\ rec.state.progress = 100

\* C40: every write of the record of a run keeps runId, uploadId and
\* createdAt; completedAt is a field of completed records only and failedAt
\* of failed records only.
C40_IdentityKeptTerminalStampsApart ==
  /\ []( /\ "completedAt" \in DOMAIN rec.state => rec.state.status = "completed"
         /\ "failedAt" \in DOMAIN rec.state => rec.state.status = "failed" )
  /\ [][rec.state # NoRecord =>
          /\ rec'.state.runId = rec.state.runId
          /\ rec'.state.uploadId = rec.state.uploadId
          /\ rec'.state.createdAt = rec.state.createdAt]_vars

\* C40, its case: a run has gone from its creation to a terminal state while
\* the clock moved on
C40_Witness ==
  /\ rec.state.status = "completed"
  /\ rec.state.completedAt > rec.state.createdAt

\* the events of the stream that end it
TerminalTypes == {"completed", "failed"}

\* C33: the stream of a request that drives its run starts with the 'runId'
\* event; while the run is driven it carries, after the 'status' event of the
\* queued run, one 'status' event per update of the pipeline, in the order of
\* the updates, and no terminal event; once closed it ends with a terminal
\* event, the only one of the stream, whether the driver returned or threw.
C33_StreamShape ==
  stream.pc # "idle" =>
    LET ev == stream.events
        n  == Len(ev)
    IN  /\ n >= 2 /\ ev[1].type = "runId" /\ ev[2].type = "status"
        /\ stream.pc = "driving" =>
              /\ \A k \in 1..n : ev[k].type \notin TerminalTypes
              /\ n = Len(pipe.emitted) + 2
              /\ \A k \in 1..Len(pipe.emitted) : ev[k + 2] = StatusEvent(pipe.emitted[k])
        /\ stream.pc = "closed" =>
              /\ n >= 3
              /\ ev[n].type \in TerminalTypes
              /\ \A k \in 2..(n - 1) : ev[k].type = "status"

\* C33, its case: the driver of the run threw after the pipeline had emitted
\* updates, and the stream is closed
C33_Witness ==
  /\ stream.pc = "closed"
  /\ store[stream.run].status = "running"
  /\ Len(stream.events) > 4
  /\ stream.events[Len(stream.events)] = Event("failed", "EIO")

\* C35: the completed state of a run is written only after runPipeline has
\* returned for that run, with one manifest record per input file, the
\* manifest written and the archive created; and the downloadPath of a
\* completed run is the path of that archive.
C35_CompletedMeansPipelineReturned ==
  /\ [](\A r \in RunIds : store[r].status = "completed" => store[r].downloadPath = "guides.zip")
  /\ [][\A r \in RunIds :
          (store'[r].status = "completed" /\ store[r].status # "completed") =>
             /\ pipe.run = r /\ pipe.pc = "returned"
             /\ Len(pipe.manifest) = Len(relInput)
             /\ \A k \in 1..Len(relInput) : pipe.manifest[k].sourcePath = k
             /\ pipe.manifestWritten /\ pipe.zipCreated]_vars

\* C35, its case: a run of several files is completed, one of its files with
\* an error record
C35_Witness ==
  \E r \in RunIds :
    /\ store[r].status = "completed"
    /\ pipe.run = r /\ pipe.pc = "returned"
    /\ Len(relInput) > 1
    /\ \E k \in 1..Len(pipe.manifest) : pipe.manifest[k].status = "error"

\* C36: the failed state of a run carries the progress of the state read at
\* dequeue, which is 0 for a run written by the creation entrypoint, whatever
\* progress was stored while the run was running.
C36_FailedProgressIsDequeueProgress ==
  /\ [](\A r \in RunIds : store[r].status = "failed" => store[r].progress = 0)
  /\ [][\A r \in RunIds :
          (store'[r].status = "failed" /\ store[r].status # "failed") =>
             /\ loop.next = r
             /\ loop.state = QueuedState
             /\ store'[r].progress = loop.state.progress]_vars

\* C36, its case: a run fails after its progress had been stored as 90: the
\* stored progress has dropped to 0
C36_Witness ==
  \E r \in RunIds :
    /\ store[r].status = "failed" /\ store[r].progress = 0
    /\ pipe.run = r /\ pipe.pc = "threw"
    /\ Len(pipe.emitted) > 1
    /\ pipe.emitted[Len(pipe.emitted)] = 100

\* C37 (as claimed): an error caught while a file is processed is critical
\* exactly when its message contains the support message; a critical error
\* leaves the pipeline, and any other error is answered with the placeholder
\* and an error record, after which the pipeline goes on.
C37_CriticalIffSupportMessage ==
  [][(pipe.pc = "convert" /\ pipe'.pc = "finally" /\ pipe'.err # "none") =>
        IF pipe'.err = "critical"
        THEN IsCritical(pipe'.thrown)
        ELSE /\ pipe'.thrown = "none"
             /\ pipe'.guides[pipe.outName] = "placeholder"
             /\ pipe'.manifest = Append(pipe.manifest,
                                        [sourcePath |-> pipe.idx, outputFile |-> pipe.outName,
                                         status |-> "error"])]_vars

\* C38 (as claimed): the scheduler selects a run only when its stored status
\* is queued, starts it (writes its running state and calls the pipeline) only
\* when its stored status is queued, and writes nothing to a run whose stored
\* status is running unless it has started that run from the queued status.
C38_SchedulerStartsOnlyQueuedRuns ==
  [][/\ (drive.loop.pc = "scan" /\ drive'.loop.pc = "read") =>
           store[drive'.loop.next].status = "queued"
     /\ (drive.loop.pc = "write" /\ drive'.loop.pc = "runPipeline") =>
           store[drive.loop.next].status = "queued"]_vars

\* C39: the caller of a request receives nothing before the request is
\* settled, and then the value or the error of its own request, which has
\* been dispatched once, whatever the outcomes of the requests before it.
C39_FailureStaysWithItsCaller ==
  \A i \in DOMAIN gemini.req :
     /\ gemini.req[i].pc # "settled" => gemini.req[i].got = NoValue
     /\ gemini.req[i].pc = "settled" =>
           /\ gemini.req[i].got = [kind |-> gemini.req[i].settled, of |-> i]
           /\ Cardinality({ k \in DOMAIN gemini.dispatched : gemini.dispatched[k] = i }) = 1

\* C39, its case: the first request failed; the second, dispatched after it,
\* succeeded and its caller has its value; the third failed with its own error
C39_Witness ==
  /\ Len(gemini.req) >= 3
  /\ gemini.req[1].got = ErrorOf(1)
  /\ gemini.req[2].got = ValueOf(2)
  /\ gemini.req[3].got = ErrorOf(3)
====
